---- MODULE Spec2Model ----
(***************************************************************************)
(* python-killswitch (killswitch.py): the KillswitchManager facade, the    *)
(* backend probe, the two registries (_KillswitchManagerUrfkill and        *)
(* _KillswitchManagerHal) and their D-Bus signal handlers.                 *)
(*                                                                         *)
(* The D-Bus daemon and the two services are the environment: what they    *)
(* reply, and which signals they deliver, are the inputs of the actions.   *)
(* One action is one whole call of a method or of a signal handler; the    *)
(* event loop is single threaded, so handlers never interleave.            *)
(***************************************************************************)
EXTENDS Integers, Sequences, FiniteSets, TLC

\* Device identifiers are 1..MaxId (URfkill: the index; HAL: the udi).
MaxId == 2

Ids == 1..MaxId

\* Python's None, and the False that __hal_get_property returns for a
\* property that does not exist.
None == "None"
False == "False"

\* Exceptions a call can end with.
NoException == "none"
TypeError == "TypeError"
DBusException == "DBusException"

\* The world is a fixed set of devices, each with fixed properties; they
\* come and go.  A device with an odd id has a name, one with an even id
\* has the empty string as name.

\* What URfkill reports about device index, as [type, name]: a wlan switch,
\* or a switch of a type outside the table.
UrfkillDevicesOf(index) ==
    IF index % 2 = 1 THEN { [type |-> 1, name |-> "wlan0"] }
    ELSE { [type |-> 8, name |-> ""] }

\* What HAL reports about device udi, as [cap, ksname, product, type]: cap
\* is the reply to QueryCapability("killswitch"), the others are the
\* properties killswitch.name, info.product and killswitch.type (False when
\* absent).  A device may have both names, only info.product, or neither,
\* and may be no killswitch at all.
HalDevicesOf(udi) ==
    { [cap |-> TRUE, ksname |-> False, product |-> False, type |-> "wlan"],
      [cap |-> FALSE, ksname |-> False, product |-> "product", type |-> False] }
    \cup
    IF udi % 2 = 1
    THEN { [cap |-> TRUE, ksname |-> "wlan0", product |-> "product", type |-> "wlan"],
           [cap |-> TRUE, ksname |-> False, product |-> "wlan0", type |-> "wlan"] }
    ELSE { [cap |-> TRUE, ksname |-> "", product |-> False, type |-> "wlan"] }

\* The type codes URfkill reports: the eight of the table and codes outside.
MaxTypeCode == 8

TypeCodes == -1..MaxTypeCode

\* Raw state values a backend replies with (HAL GetPower; field [2] of
\* URfkill's GetKillswitch).
RawStates == {0, 1, 2}

\* The state values an RfkillChanged signal carries.
CarriedStates == {0, 2}

\* The callables an application registers.
Observers == {"cb1", "cb2"}

VARIABLES
    k,                      \* KillswitchManager.k: "unbuilt", "urfkill", "hal", "unset"
    _switches,              \* self.k._switches
    _state_changed_cb,      \* self.k._state_changed_cb
    _killswitch_added_cb,   \* self.k._killswitch_added_cb
    _killswitch_removed_cb, \* self.k._killswitch_removed_cb
    subscribed,             \* udis with a PropertyModified receiver (HAL)
    op,                     \* the last call or signal, with its inputs
    pre,                    \* _switches when the last call or signal began
    calls,                  \* observer invocations made by the last call or signal
    setcalls,               \* Killswitch.set_state invocations made by the last call
    buscalls,               \* backend method calls made by those set_state invocations
    raised,                 \* the exception the last call or signal ended with
    device                  \* one Killswitch adapter and the backend's state of its device

vars == <<k, _switches, _state_changed_cb,
          _killswitch_added_cb, _killswitch_removed_cb, subscribed, op, pre,
          calls, setcalls, buscalls, raised, device>>

----------------------------------------------------------------------------
\* Helpers on the registry.

Udis(sw) == {sw[i].udi : i \in 1..Len(sw)}

RemoveAt(sw, i) == [j \in 1..(Len(sw) - 1) |-> IF j < i THEN sw[j] ELSE sw[j + 1]]

\* Killswitch(bus, udi, name, type, is_urfkill): the adapter's fixed fields.
Killswitch(udi, name, type) == [udi |-> udi, name |-> name, type |-> type]

\* What a handler or a call leaves behind.
Outcome(sw, cs, exc) == [switches |-> sw, calls |-> cs, raised |-> exc]

\* Calling an observer slot: a slot still None raises TypeError.
ObserverCall(slot, cb, dev, state, sw) ==
    [slot |-> slot, cb |-> cb, dev |-> dev, state |-> state, reg |-> sw]

----------------------------------------------------------------------------
\* Backend probe.

\* The results of bus.get_object on a name without owner: the exception it
\* raises and whether the name has an owner afterwards.
Activations ==
    { [exc |-> "none", owned |-> TRUE],
      [exc |-> "ServiceUnknown", owned |-> FALSE],
      [exc |-> "NoReply", owned |-> TRUE],
      [exc |-> "NoReply", owned |-> FALSE] }

\* _have_urfkill(): owned is name_has_owner before the activation attempt.
have_urfkill(owned, act) ==
    IF owned THEN 1
    ELSE IF act.exc = "ServiceUnknown" THEN 0
    ELSE IF act.owned THEN 1
    ELSE 0

\* _have_hal()
have_hal(owned) == IF owned THEN 1 ELSE 0

\* KillswitchManager.__init__ with the two probes in the other order.
select_backend_hal_first(uowned, act, howned) ==
    IF have_hal(howned) = 1 THEN "hal"
    ELSE IF have_urfkill(uowned, act) = 1 THEN "urfkill"
    ELSE "unset"

\* KillswitchManager.__init__: which registry self.k becomes.
select_backend(uowned, act, howned) ==
    IF have_urfkill(uowned, act) = 1 THEN "urfkill"
    ELSE IF have_hal(howned) = 1 THEN "hal"
    ELSE "unset"

----------------------------------------------------------------------------
\* Device adapters.

\* __get_name_for_type with the table ending one entry early.
get_name_for_type_short(type) ==
    CASE type = 0 -> "type all"
      [] type = 1 -> "wlan"
      [] type = 2 -> "bluetooth"
      [] type = 3 -> "uwb"
      [] type = 4 -> "wimax"
      [] type = 5 -> "wwan"
      [] type = 6 -> "gps"
      [] OTHER -> "unknown type"

\* _KillswitchManagerUrfkill.__get_name_for_type
get_name_for_type(type) ==
    CASE type = 0 -> "type all"
      [] type = 1 -> "wlan"
      [] type = 2 -> "bluetooth"
      [] type = 3 -> "uwb"
      [] type = 4 -> "wimax"
      [] type = 5 -> "wwan"
      [] type = 6 -> "gps"
      [] type = 7 -> "fm"
      [] OTHER -> "unknown type"

\* _KillswitchHal.get_state: GetPower's reply as it is.
hal_get_state(raw) == raw

\* _KillswitchUrfkill.get_state: not GetKillswitch(udi)[2]; Python's True
\* and False are the integers 1 and 0.
urfkill_get_state(raw) == IF raw = 0 THEN 1 ELSE 0

\* Killswitch.get_state, dispatched on the variant.
get_state(variant, raw) ==
    IF variant = "urfkill" THEN urfkill_get_state(raw) ELSE hal_get_state(raw)

\* _KillswitchHal.set_state: the backend calls it issues.
hal_set_state(udi, state) ==
    <<[udi |-> udi, method |-> "SetPower", arg |-> state]>>

\* _KillswitchUrfkill.set_state with the two methods exchanged.
urfkill_set_state_swapped(udi, state) ==
    IF state = 1 THEN <<[udi |-> udi, method |-> "BlockIdx", arg |-> udi]>>
    ELSE IF state = 0 THEN <<[udi |-> udi, method |-> "UnblockIdx", arg |-> udi]>>
    ELSE <<>>

\* _KillswitchUrfkill.set_state: the backend calls it issues.
urfkill_set_state(udi, state) ==
    IF state = 1 THEN <<[udi |-> udi, method |-> "UnblockIdx", arg |-> udi]>>
    ELSE IF state = 0 THEN <<[udi |-> udi, method |-> "BlockIdx", arg |-> udi]>>
    ELSE <<>>

\* Killswitch.set_state, dispatched on the variant.
set_state(variant, udi, state) ==
    IF variant = "urfkill" THEN urfkill_set_state(udi, state)
    ELSE hal_set_state(udi, state)

----------------------------------------------------------------------------
\* Initial discovery.

\* The ids of S in ascending order: the order a backend lists its devices in.
RECURSIVE AscSeq(_)
AscSeq(S) ==
    IF S = {} THEN <<>>
    ELSE LET m == CHOOSE x \in S : \A y \in S : x <= y
         IN <<m>> \o AscSeq(S \ {m})

\* _KillswitchManagerUrfkill.__init__: getall is GetAll's reply, a sequence
\* of [index, type, name]; every entry is appended.
RECURSIVE urfkill_init(_)
urfkill_init(getall) ==
    IF getall = <<>> THEN <<>>
    ELSE LET ks == Head(getall)
         IN <<Killswitch(ks.index, ks.name, get_name_for_type(ks.type))>>
            \o urfkill_init(Tail(getall))

\* The name lookup of _KillswitchManagerHal.__init__ and __device_added_cb:
\* killswitch.name, then info.product; False when both are absent.
hal_name(ksname, product) ==
    IF ksname = False THEN product ELSE ksname

\* _KillswitchManagerHal.__init__: udis is FindDeviceByCapability's reply,
\* props[udi] the device's properties; a device without name is skipped.
RECURSIVE hal_init(_, _)
hal_init(udis, props) ==
    IF udis = <<>> THEN <<>>
    ELSE LET udi == Head(udis)
             name == hal_name(props[udi].ksname, props[udi].product)
         IN IF name = False THEN hal_init(Tail(udis), props)
            ELSE <<Killswitch(udi, name, props[udi].type)>>
                 \o hal_init(Tail(udis), props)

----------------------------------------------------------------------------
\* Signal handlers of _KillswitchManagerUrfkill.  reply is what the backend
\* answers to the handler's remote call: [exc, value], exc being the
\* exception the call raises and value the result when it raises none.

\* The for loop of __killswitch_modified_cb from position i on.
RECURSIVE urfkill_modified_loop(_, _, _, _, _, _)
urfkill_modified_loop(sw, i, cb, index, reply, acc) ==
    IF i > Len(sw) THEN Outcome(sw, acc, NoException)
    ELSE IF index = sw[i].udi
         THEN IF reply.exc = DBusException THEN Outcome(sw, acc, DBusException)
              ELSE IF cb = None THEN Outcome(sw, acc, TypeError)
              ELSE urfkill_modified_loop(sw, i + 1, cb, index, reply,
                       Append(acc, ObserverCall("state_changed", cb, sw[i],
                                       urfkill_get_state(reply.value), sw)))
         ELSE urfkill_modified_loop(sw, i + 1, cb, index, reply, acc)

\* __killswitch_modified_cb forwarding the state the signal carries.
RECURSIVE urfkill_modified_loop_carried(_, _, _, _, _, _, _)
urfkill_modified_loop_carried(sw, i, cb, index, state, reply, acc) ==
    IF i > Len(sw) THEN Outcome(sw, acc, NoException)
    ELSE IF index = sw[i].udi
         THEN IF reply.exc = DBusException THEN Outcome(sw, acc, DBusException)
              ELSE IF cb = None THEN Outcome(sw, acc, TypeError)
              ELSE urfkill_modified_loop_carried(sw, i + 1, cb, index, state, reply,
                       Append(acc, ObserverCall("state_changed", cb, sw[i], state, sw)))
         ELSE urfkill_modified_loop_carried(sw, i + 1, cb, index, state, reply, acc)

killswitch_modified_cb_carried(sw, cb, index, state, reply) ==
    urfkill_modified_loop_carried(sw, 1, cb, index, state, reply, <<>>)

\* __killswitch_modified_cb(index, type, state, soft, hard, name)
killswitch_modified_cb(sw, cb, index, state, reply) ==
    urfkill_modified_loop(sw, 1, cb, index, reply, <<>>)

\* __killswitch_added_cb without the search for index in the list.
killswitch_added_cb_no_search(sw, cb, index, type, name, exc) ==
    IF exc = DBusException THEN Outcome(sw, <<>>, DBusException)
    ELSE LET ks == Killswitch(index, name, get_name_for_type(type))
             sw2 == Append(sw, ks)
         IN IF cb = None THEN Outcome(sw2, <<>>, TypeError)
            ELSE Outcome(sw2, <<ObserverCall("added", cb, ks, None, sw2)>>,
                         NoException)

\* __killswitch_added_cb with the append before the adapter is built.
killswitch_added_cb_append_first(sw, cb, index, type, name, exc) ==
    IF \E i \in 1..Len(sw) : index = sw[i].udi
    THEN Outcome(sw, <<>>, NoException)
    ELSE LET ks == Killswitch(index, name, get_name_for_type(type))
             sw2 == Append(sw, ks)
         IN IF exc = DBusException THEN Outcome(sw2, <<>>, DBusException)
            ELSE IF cb = None THEN Outcome(sw2, <<>>, TypeError)
            ELSE Outcome(sw2, <<ObserverCall("added", cb, ks, None, sw2)>>,
                         NoException)

\* __killswitch_added_cb(index, type, state, soft, hard, name); exc is the
\* exception of the get_object call in the adapter's constructor.
killswitch_added_cb(sw, cb, index, type, name, exc) ==
    IF \E i \in 1..Len(sw) : index = sw[i].udi
    THEN Outcome(sw, <<>>, NoException)
    ELSE IF exc = DBusException THEN Outcome(sw, <<>>, DBusException)
    ELSE LET ks == Killswitch(index, name, get_name_for_type(type))
             sw2 == Append(sw, ks)
         IN IF cb = None THEN Outcome(sw2, <<>>, TypeError)
            ELSE Outcome(sw2, <<ObserverCall("added", cb, ks, None, sw2)>>,
                         NoException)

\* The loop of __killswitch_removed_cb with the remove before the observer.
RECURSIVE urfkill_removed_loop_remove_first(_, _, _, _, _)
urfkill_removed_loop_remove_first(sw, i, cb, index, acc) ==
    IF i > Len(sw) THEN Outcome(sw, acc, NoException)
    ELSE IF index = sw[i].udi
         THEN IF cb = None THEN Outcome(RemoveAt(sw, i), acc, TypeError)
              ELSE urfkill_removed_loop_remove_first(RemoveAt(sw, i), i + 1, cb, index,
                       Append(acc, ObserverCall("removed", cb, sw[i], None,
                                                RemoveAt(sw, i))))
         ELSE urfkill_removed_loop_remove_first(sw, i + 1, cb, index, acc)

\* The for loop of __killswitch_removed_cb from position i on; the list
\* iterator steps on after a remove.
RECURSIVE urfkill_removed_loop(_, _, _, _, _)
urfkill_removed_loop(sw, i, cb, index, acc) ==
    IF i > Len(sw) THEN Outcome(sw, acc, NoException)
    ELSE IF index = sw[i].udi
         THEN IF cb = None THEN Outcome(sw, acc, TypeError)
              ELSE urfkill_removed_loop(RemoveAt(sw, i), i + 1, cb, index,
                       Append(acc, ObserverCall("removed", cb, sw[i], None, sw)))
         ELSE urfkill_removed_loop(sw, i + 1, cb, index, acc)

\* __killswitch_removed_cb(index)
killswitch_removed_cb(sw, cb, index) ==
    urfkill_removed_loop(sw, 1, cb, index, <<>>)

----------------------------------------------------------------------------
\* Signal handlers of _KillswitchManagerHal.

\* The for loop of __property_modified_cb from position i on.
RECURSIVE hal_modified_loop(_, _, _, _, _, _)
hal_modified_loop(sw, i, cb, path, reply, acc) ==
    IF i > Len(sw) THEN Outcome(sw, acc, NoException)
    ELSE IF path = sw[i].udi
         THEN IF reply.exc = DBusException THEN Outcome(sw, acc, DBusException)
              ELSE IF cb = None THEN Outcome(sw, acc, TypeError)
              ELSE hal_modified_loop(sw, i + 1, cb, path, reply,
                       Append(acc, ObserverCall("state_changed", cb, sw[i],
                                       hal_get_state(reply.value), sw)))
         ELSE hal_modified_loop(sw, i + 1, cb, path, reply, acc)

\* __property_modified_cb(num_changes, change_list, path)
property_modified_cb(sw, cb, path, reply) ==
    hal_modified_loop(sw, 1, cb, path, reply, <<>>)

\* __device_added_cb with the observer called before the append.
device_added_cb_tells_first(sw, cb, path, reply) ==
    IF reply.exc = DBusException THEN Outcome(sw, <<>>, DBusException)
    ELSE IF ~reply.value.cap THEN Outcome(sw, <<>>, NoException)
    ELSE IF \E i \in 1..Len(sw) : path = sw[i].udi
    THEN Outcome(sw, <<>>, NoException)
    ELSE LET name == hal_name(reply.value.ksname, reply.value.product)
             ks == Killswitch(path, name, reply.value.type)
             sw2 == Append(sw, ks)
         IN IF name = False THEN Outcome(sw, <<>>, NoException)
            ELSE IF cb = None THEN Outcome(sw, <<>>, TypeError)
            ELSE Outcome(sw2, <<ObserverCall("added", cb, ks, None, sw)>>,
                         NoException)

\* __device_added_cb with the observer told of a device already in the list.
device_added_cb_tells_again(sw, cb, path, reply) ==
    IF reply.exc = DBusException THEN Outcome(sw, <<>>, DBusException)
    ELSE IF ~reply.value.cap THEN Outcome(sw, <<>>, NoException)
    ELSE LET name == hal_name(reply.value.ksname, reply.value.product)
             ks == Killswitch(path, name, reply.value.type)
             known == \E i \in 1..Len(sw) : path = sw[i].udi
             sw2 == IF known THEN sw ELSE Append(sw, ks)
         IN IF name = False THEN Outcome(sw, <<>>, NoException)
            ELSE IF cb = None THEN Outcome(sw2, <<>>, TypeError)
            ELSE Outcome(sw2, <<ObserverCall("added", cb, ks, None, sw2)>>,
                         NoException)

\* __device_added_cb(path); reply.exc is DBusException when one of the
\* remote calls fails, reply.value the device [cap, ksname, product, type].
device_added_cb(sw, cb, path, reply) ==
    IF reply.exc = DBusException THEN Outcome(sw, <<>>, DBusException)
    ELSE IF ~reply.value.cap THEN Outcome(sw, <<>>, NoException)
    ELSE IF \E i \in 1..Len(sw) : path = sw[i].udi
    THEN Outcome(sw, <<>>, NoException)
    ELSE LET name == hal_name(reply.value.ksname, reply.value.product)
             ks == Killswitch(path, name, reply.value.type)
             sw2 == Append(sw, ks)
         IN IF name = False THEN Outcome(sw, <<>>, NoException)
            ELSE IF cb = None THEN Outcome(sw2, <<>>, TypeError)
            ELSE Outcome(sw2, <<ObserverCall("added", cb, ks, None, sw2)>>,
                         NoException)

\* The loop of __device_removed_cb without the comparison of path and udi.
RECURSIVE hal_removed_loop_any(_, _, _, _, _)
hal_removed_loop_any(sw, i, cb, path, acc) ==
    IF i > Len(sw) THEN Outcome(sw, acc, NoException)
    ELSE IF cb = None THEN Outcome(sw, acc, TypeError)
    ELSE hal_removed_loop_any(RemoveAt(sw, i), i + 1, cb, path,
             Append(acc, ObserverCall("removed", cb, sw[i], None, sw)))

\* The for loop of __device_removed_cb from position i on.
RECURSIVE hal_removed_loop(_, _, _, _, _)
hal_removed_loop(sw, i, cb, path, acc) ==
    IF i > Len(sw) THEN Outcome(sw, acc, NoException)
    ELSE IF path = sw[i].udi
         THEN IF cb = None THEN Outcome(sw, acc, TypeError)
              ELSE hal_removed_loop(RemoveAt(sw, i), i + 1, cb, path,
                       Append(acc, ObserverCall("removed", cb, sw[i], None, sw)))
         ELSE hal_removed_loop(sw, i + 1, cb, path, acc)

\* __device_removed_cb(path)
device_removed_cb(sw, cb, path) ==
    hal_removed_loop(sw, 1, cb, path, <<>>)

----------------------------------------------------------------------------
\* Bulk operations of the facade.

\* The for loop of enable_all / disable_all from position i on: failing are
\* the devices whose backend call raises; nothing catches the exception.
RECURSIVE set_all_loop(_, _, _, _, _, _, _)
set_all_loop(variant, sw, i, state, failing, sc, bc) ==
    IF i > Len(sw)
    THEN [setcalls |-> sc, buscalls |-> bc, raised |-> NoException]
    ELSE LET sc2 == Append(sc, [udi |-> sw[i].udi, state |-> state])
             bc2 == bc \o set_state(variant, sw[i].udi, state)
         IN IF sw[i].udi \in failing
            THEN [setcalls |-> sc2, buscalls |-> bc2, raised |-> DBusException]
            ELSE set_all_loop(variant, sw, i + 1, state, failing, sc2, bc2)

\* KillswitchManager.enable_all
enable_all(variant, sw, failing) == set_all_loop(variant, sw, 1, 1, failing, <<>>, <<>>)

\* KillswitchManager.disable_all
disable_all(variant, sw, failing) == set_all_loop(variant, sw, 1, 0, failing, <<>>, <<>>)

----------------------------------------------------------------------------
\* The environment's inputs.

\* GetAll's replies: the devices of S in ascending order, each with a type
\* code and a name.
GetAllReplies(S) ==
    { [i \in 1..Cardinality(S) |->
          [index |-> AscSeq(S)[i], type |-> d[AscSeq(S)[i]].type,
           name |-> d[AscSeq(S)[i]].name]] :
      d \in { f \in [S -> UNION {UrfkillDevicesOf(i) : i \in S}] :
                \A i \in S : f[i] \in UrfkillDevicesOf(i) } }

\* The properties of the devices FindDeviceByCapability("killswitch") lists.
HalProperties(S) ==
    { f \in [S -> UNION {HalDevicesOf(i) : i \in S}] :
        \A i \in S : f[i] \in HalDevicesOf(i) /\ f[i].cap }

\* The replies to GetPower and GetKillswitch.
StateReplies ==
    { [exc |-> NoException, value |-> r] : r \in RawStates }
    \cup { [exc |-> DBusException, value |-> 0] }

\* The replies to the remote calls of __device_added_cb.
HalReplies(udi) ==
    { [exc |-> NoException, value |-> d] : d \in HalDevicesOf(udi) }
    \cup { [exc |-> DBusException,
            value |-> [cap |-> FALSE, ksname |-> False, product |-> False, type |-> False]] }

Live == k \in {"urfkill", "hal"}

\* The device variable while no single adapter is looked at.
NoDevice ==
    [variant |-> "none", udi |-> 0, soft |-> FALSE, hard |-> FALSE, power |-> 0,
     layout |-> "none"]

\* What a caller passes to Killswitch.set_state.
SetStateArgs == {-1, 0, 1, 2}

\* What GetPower replies: the power HAL holds for the device.
GetPower(dev) == dev.power

\* Field [2] of GetKillswitch's reply, which follows index and type and
\* precedes soft and hard.  killswitch.py does not say how URfkill fills it;
\* either it is nonzero when the device is blocked, or it is rfkill's state
\* (0 soft blocked, 1 unblocked, 2 hard blocked).
GetKillswitch2(dev) ==
    IF dev.layout = "blocked"
    THEN IF dev.soft \/ dev.hard THEN 1 ELSE 0
    ELSE IF dev.hard THEN 2 ELSE IF dev.soft THEN 0 ELSE 1

\* The backend's state of the device after it served one call: SetPower
\* takes a boolean, UnblockIdx and BlockIdx clear and set the soft block.
Served(dev, call) ==
    CASE call.method = "SetPower" ->
            [dev EXCEPT !.power = IF call.arg = 0 THEN 0 ELSE 1]
      [] call.method = "UnblockIdx" -> [dev EXCEPT !.soft = FALSE]
      [] call.method = "BlockIdx" -> [dev EXCEPT !.soft = TRUE]

RECURSIVE ServedAll(_, _)
ServedAll(dev, cs) ==
    IF cs = <<>> THEN dev ELSE ServedAll(Served(dev, Head(cs)), Tail(cs))

----------------------------------------------------------------------------
\* The state machine.

Init ==
    /\ k = "unbuilt"
    /\ _switches = <<>>
    /\ _state_changed_cb = None
    /\ _killswitch_added_cb = None
    /\ _killswitch_removed_cb = None
    /\ subscribed = {}
    /\ op = [kind |-> "start"]
    /\ pre = <<>>
    /\ calls = <<>>
    /\ setcalls = <<>>
    /\ buscalls = <<>>
    /\ raised = NoException
    /\ device = NoDevice

\* KillswitchManager(): the probe, then the chosen registry's __init__ with
\* its discovery.  uowned and howned are what name_has_owner answers for
\* URfkill (before the activation attempt) and for HAL.
Construct ==
    /\ k = "unbuilt"
    /\ \E uowned \in BOOLEAN, howned \in BOOLEAN, act \in Activations,
          S \in SUBSET Ids :
        LET backend == select_backend(uowned, act, howned)
            o == [kind |-> "construct", urfkill_owned |-> (uowned \/ act.owned),
                  hal_owned |-> howned, discovered |-> S]
        IN /\ k' = backend
           /\ \/ /\ backend = "urfkill"
                 /\ \E getall \in GetAllReplies(S) : _switches' = urfkill_init(getall)
                 /\ subscribed' = {}
                 /\ op' = o
              \/ /\ backend = "hal"
                 /\ \E props \in HalProperties(S) :
                        /\ _switches' = hal_init(AscSeq(S), props)
                        /\ subscribed' = Udis(hal_init(AscSeq(S), props))
                 /\ op' = o
              \/ /\ backend = "unset"
                 /\ S = {}
                 /\ _switches' = <<>>
                 /\ subscribed' = {}
                 /\ op' = o
    /\ pre' = <<>>
    /\ calls' = <<>>
    /\ setcalls' = <<>>
    /\ buscalls' = <<>>
    /\ raised' = NoException
    /\ UNCHANGED <<_state_changed_cb, _killswitch_added_cb,
                   _killswitch_removed_cb, device>>

\* What every method call and signal records.
Record(o, sw, cs, exc) ==
    /\ op' = o
    /\ pre' = _switches
    /\ _switches' = sw
    /\ calls' = cs
    /\ raised' = exc
    /\ UNCHANGED <<k, subscribed, device>>

\* KillswitchManager.set_state_changed_cb(cb)
SetStateChangedCb ==
    /\ Live
    /\ \E cb \in Observers :
        /\ _state_changed_cb' = cb
        /\ Record([kind |-> "set_state_changed_cb", cb |-> cb, old |-> _state_changed_cb],
                  _switches, <<>>, NoException)
    /\ UNCHANGED <<_killswitch_added_cb, _killswitch_removed_cb, setcalls, buscalls>>

\* set_killswitch_added_cb storing cb in the state-change slot.
SetKillswitchAddedCb_wrong_slot ==
    /\ Live
    /\ \E cb \in Observers :
        /\ _state_changed_cb' = cb
        /\ Record([kind |-> "set_killswitch_added_cb", cb |-> cb,
                   old |-> _killswitch_added_cb], _switches, <<>>, NoException)
    /\ UNCHANGED <<_killswitch_added_cb, _killswitch_removed_cb, setcalls, buscalls>>

\* KillswitchManager.set_killswitch_added_cb(cb)
SetKillswitchAddedCb ==
    /\ Live
    /\ \E cb \in Observers :
        /\ _killswitch_added_cb' = cb
        /\ Record([kind |-> "set_killswitch_added_cb", cb |-> cb,
                   old |-> _killswitch_added_cb], _switches, <<>>, NoException)
    /\ UNCHANGED <<_state_changed_cb, _killswitch_removed_cb, setcalls, buscalls>>

\* KillswitchManager.set_killswitch_removed_cb(cb)
SetKillswitchRemovedCb ==
    /\ Live
    /\ \E cb \in Observers :
        /\ _killswitch_removed_cb' = cb
        /\ Record([kind |-> "set_killswitch_removed_cb", cb |-> cb,
                   old |-> _killswitch_removed_cb], _switches, <<>>, NoException)
    /\ UNCHANGED <<_state_changed_cb, _killswitch_added_cb, setcalls, buscalls>>

\* A signal handler's run: out is what the handler leaves behind.
Deliver(o, out) ==
    /\ Record(o, out.switches, out.calls, out.raised)
    /\ setcalls' = <<>>
    /\ buscalls' = <<>>
    /\ UNCHANGED <<_state_changed_cb, _killswitch_added_cb, _killswitch_removed_cb>>

\* URfkill's RfkillChanged signal.
RfkillChanged ==
    /\ k = "urfkill"
    /\ \E index \in Ids, state \in CarriedStates, reply \in StateReplies :
        Deliver([kind |-> "changed", id |-> index, state |-> state, reply |-> reply],
                killswitch_modified_cb(_switches, _state_changed_cb, index, state, reply))

\* URfkill's RfkillAdded signal.
RfkillAdded ==
    /\ k = "urfkill"
    /\ \E index \in Ids :
       \E d \in UrfkillDevicesOf(index), exc \in {NoException, DBusException} :
        Deliver([kind |-> "added", id |-> index, name |-> d.name, type |-> d.type,
                 exc |-> exc],
                killswitch_added_cb(_switches, _killswitch_added_cb, index, d.type,
                                    d.name, exc))

\* URfkill's RfkillRemoved signal.
RfkillRemoved ==
    /\ k = "urfkill"
    /\ \E index \in Ids :
        Deliver([kind |-> "removed", id |-> index],
                killswitch_removed_cb(_switches, _killswitch_removed_cb, index))

\* HAL's PropertyModified signal: delivered for the paths a receiver was
\* added for.
PropertyModified ==
    /\ k = "hal"
    /\ \E path \in subscribed, reply \in StateReplies :
        Deliver([kind |-> "changed", id |-> path, reply |-> reply],
                property_modified_cb(_switches, _state_changed_cb, path, reply))

\* HAL's DeviceAdded signal: sent for every device, killswitch or not.
DeviceAdded ==
    /\ k = "hal"
    /\ \E path \in Ids :
       \E reply \in HalReplies(path) :
        Deliver([kind |-> "added", id |-> path, reply |-> reply],
                device_added_cb(_switches, _killswitch_added_cb, path, reply))

\* HAL's DeviceRemoved signal.
DeviceRemoved ==
    /\ k = "hal"
    /\ \E path \in Ids :
        Deliver([kind |-> "removed", id |-> path],
                device_removed_cb(_switches, _killswitch_removed_cb, path))

\* KillswitchManager.enable_all()
EnableAll ==
    /\ Live
    /\ \E failing \in SUBSET Udis(_switches) :
        LET out == enable_all(k, _switches, failing)
        IN /\ Record([kind |-> "enable_all"], _switches, <<>>, out.raised)
           /\ setcalls' = out.setcalls
           /\ buscalls' = out.buscalls
    /\ UNCHANGED <<_state_changed_cb, _killswitch_added_cb, _killswitch_removed_cb>>

\* KillswitchManager.disable_all()
DisableAll ==
    /\ Live
    /\ \E failing \in SUBSET Udis(_switches) :
        LET out == disable_all(k, _switches, failing)
        IN /\ Record([kind |-> "disable_all"], _switches, <<>>, out.raised)
           /\ setcalls' = out.setcalls
           /\ buscalls' = out.buscalls
    /\ UNCHANGED <<_state_changed_cb, _killswitch_added_cb, _killswitch_removed_cb>>

Next ==
    \/ Construct
    \/ SetStateChangedCb
    \/ SetKillswitchAddedCb
    \/ SetKillswitchRemovedCb
    \/ RfkillChanged
    \/ RfkillAdded
    \/ RfkillRemoved
    \/ PropertyModified
    \/ DeviceAdded
    \/ DeviceRemoved
    \/ EnableAll
    \/ DisableAll

Spec == Init /\ [][Next]_vars

-----------------------------------------------------------------------------
\* The URfkill registry with devices of every type code.

\* The name URfkill reports for device index.
UrfkillNameOf(index) == (CHOOSE d \in UrfkillDevicesOf(index) : TRUE).name

\* GetAll's replies when the devices of S have any of the type codes.
GetAllTyped(S) ==
    { [i \in 1..Cardinality(S) |->
          [index |-> AscSeq(S)[i], type |-> t[i], name |-> UrfkillNameOf(AscSeq(S)[i])]] :
      t \in [1..Cardinality(S) -> TypeCodes] }

\* KillswitchManager() on a bus where URfkill is running.
TypesConstruct ==
    /\ k = "unbuilt"
    /\ k' = "urfkill"
    /\ \E S \in SUBSET Ids : \E getall \in GetAllTyped(S) :
        /\ _switches' = urfkill_init(getall)
        /\ op' = [kind |-> "construct", getall |-> getall]
    /\ pre' = <<>>
    /\ calls' = <<>>
    /\ raised' = NoException
    /\ UNCHANGED <<_state_changed_cb, _killswitch_added_cb, _killswitch_removed_cb,
                   subscribed, setcalls, buscalls, device>>

\* URfkill's RfkillAdded signal for a device of any type code.
TypesAdded ==
    /\ k = "urfkill"
    /\ \E index \in Ids, type \in TypeCodes :
        Deliver([kind |-> "added", id |-> index, name |-> UrfkillNameOf(index),
                 type |-> type, exc |-> NoException],
                killswitch_added_cb(_switches, _killswitch_added_cb, index, type,
                                    UrfkillNameOf(index), NoException))

NextTypes ==
    \/ TypesConstruct
    \/ TypesAdded
    \/ SetKillswitchAddedCb

SpecTypes == Init /\ [][NextTypes]_vars

-----------------------------------------------------------------------------
\* One Killswitch adapter and its device.

\* An adapter of either variant for a device in any state.
InitDevice ==
    /\ k = "unbuilt"
    /\ _switches = <<>>
    /\ _state_changed_cb = None
    /\ _killswitch_added_cb = None
    /\ _killswitch_removed_cb = None
    /\ subscribed = {}
    /\ op = [kind |-> "start"]
    /\ pre = <<>>
    /\ calls = <<>>
    /\ setcalls = <<>>
    /\ buscalls = <<>>
    /\ raised = NoException
    /\ \E udi \in Ids :
        \/ \E power \in {0, 1} :
              device = [variant |-> "hal", udi |-> udi, soft |-> FALSE,
                        hard |-> FALSE, power |-> power, layout |-> "none"]
        \/ \E soft \in BOOLEAN, hard \in BOOLEAN, layout \in {"blocked", "state"} :
              device = [variant |-> "urfkill", udi |-> udi, soft |-> soft,
                        hard |-> hard, power |-> 0, layout |-> layout]

ManagerUnchanged ==
    UNCHANGED <<k, _switches, _state_changed_cb, _killswitch_added_cb,
                _killswitch_removed_cb, subscribed, pre, calls>>

\* Killswitch.set_state(state); fails tells whether the backend call ends
\* with a DBusException.
DevSetState ==
    /\ \E state \in SetStateArgs, fails \in BOOLEAN :
        LET cs == set_state(device.variant, device.udi, state)
        IN /\ fails => cs # <<>>
           /\ buscalls' = cs
           /\ setcalls' = <<[udi |-> device.udi, state |-> state]>>
           /\ raised' = IF fails THEN DBusException ELSE NoException
           /\ device' = IF fails THEN device ELSE ServedAll(device, cs)
           /\ op' = [kind |-> "set_state", state |-> state, before |-> device]
    /\ ManagerUnchanged

\* Killswitch.get_state(); after_set_1 tells whether it immediately
\* follows a set_state(1) that returned.
DevGetState ==
    /\ \E fails \in BOOLEAN :
        /\ raised' = IF fails THEN DBusException ELSE NoException
        /\ op' = [kind |-> "get_state",
                  result |-> IF fails THEN None
                             ELSE get_state(device.variant,
                                            IF device.variant = "hal"
                                            THEN GetPower(device)
                                            ELSE GetKillswitch2(device)),
                  after_set_1 |-> (op.kind = "set_state" /\ op.state = 1
                                   /\ raised = NoException)]
    /\ setcalls' = <<>>
    /\ buscalls' = <<>>
    /\ UNCHANGED device
    /\ ManagerUnchanged

\* The radio's hardware switch is moved.
HardSwitch ==
    /\ device.variant = "urfkill"
    /\ device' = [device EXCEPT !.hard = ~device.hard]
    /\ op' = [kind |-> "hard_switch"]
    /\ raised' = NoException
    /\ setcalls' = <<>>
    /\ buscalls' = <<>>
    /\ ManagerUnchanged

NextDevice ==
    \/ DevSetState
    \/ DevGetState
    \/ HardSwitch

SpecDevice == InitDevice /\ [][NextDevice]_vars

----------------------------------------------------------------------------
\* Properties.

Entries(sw) == {sw[i] : i \in 1..Len(sw)}

\* A name an application can show: present and not empty.
Usable(name) == name \notin {False, None, ""}

\* The last signal was an added / removed / changed notification for an id
\* that was (not) in the registry when it arrived.
AddedKnown == op.kind = "added" /\ op.id \in Udis(pre)
AddedNew == op.kind = "added" /\ op.id \notin Udis(pre)
RemovedKnown == op.kind = "removed" /\ op.id \in Udis(pre)
RemovedUnknown == op.kind = "removed" /\ op.id \notin Udis(pre)
ChangedKnown == op.kind = "changed" /\ op.id \in Udis(pre)
ChangedUnknown == op.kind = "changed" /\ op.id \notin Udis(pre)

\* C1: in every reachable state, with either backend, no two devices of
\* the registry (what get_killswitches() returns) have the same id.
C1_UniqueIds ==
    \A i, j \in 1..Len(_switches) :
        i # j => _switches[i].udi # _switches[j].udi

\* An added notification for a present id arrived at a registry of two.
C1_Witness ==
    /\ AddedKnown
    /\ k = "urfkill"
    /\ op.exc = NoException
    /\ Len(_switches) = 2

\* C2: an added notification whose id is already in the registry leaves
\* the registry as it was and invokes no observer, with either backend.
C2_DuplicateAddedIgnored ==
    AddedKnown => (_switches = pre /\ calls = <<>>)

\* HAL announces a killswitch that is in the registry, its remote calls
\* succeed and an added-observer is registered.
C2_Witness ==
    /\ AddedKnown
    /\ k = "hal"
    /\ op.reply.exc = NoException
    /\ op.reply.value.cap
    /\ Usable(hal_name(op.reply.value.ksname, op.reply.value.product))
    /\ _killswitch_added_cb # None
    /\ pre # <<>>

\* C3: a removed notification for an id in the registry decreases the
\* registry's size by exactly one: the id is gone and every other entry is
\* still there, in the same order.
C3_RemovedShrinksByOne ==
    RemovedKnown =>
        /\ Len(_switches) = Len(pre) - 1
        /\ op.id \notin Udis(_switches)
        /\ _switches = SelectSeq(pre, LAMBDA d : d.udi # op.id)

\* C4: a removed notification for an id in the registry invokes the
\* registered removed-observer exactly once, with the device as it was
\* registered (id, name, type), and the device is still in the registry
\* while the observer runs.
C4_RemovedObserverBeforeDelete ==
    (RemovedKnown /\ _killswitch_removed_cb # None) =>
        /\ Len(calls) = 1
        /\ calls[1].slot = "removed"
        /\ calls[1].cb = _killswitch_removed_cb
        /\ calls[1].dev.udi = op.id
        /\ calls[1].dev \in Entries(pre)
        /\ calls[1].reg = pre
        /\ calls[1].dev \in Entries(calls[1].reg)

\* A device is removed from a registry of two with an observer registered.
C4_Witness ==
    /\ RemovedKnown
    /\ _killswitch_removed_cb # None
    /\ Len(pre) = 2
    /\ Len(_switches) = 1

\* C5: a removed notification for an id that is not in the registry
\* changes nothing: the registry stays and no observer is invoked.
C5_RemovedUnknownNoop ==
    RemovedUnknown => (_switches = pre /\ calls = <<>> /\ raised = NoException)

\* A removal of an unknown id arrives at a registry that is not empty,
\* with all three observers registered.
C5_Witness ==
    /\ RemovedUnknown
    /\ pre # <<>>
    /\ _killswitch_removed_cb # None
    /\ _killswitch_added_cb # None
    /\ _state_changed_cb # None

\* The state Killswitch.get_state returns when the backend replies raw.
ExpectedState(raw) ==
    IF k = "hal" THEN raw ELSE IF raw = 0 THEN 1 ELSE 0

\* C6: a changed notification for an id in the registry invokes the
\* registered state-change observer exactly once with the device and the
\* state fetched from the backend while handling (not the state the signal
\* carries); one for an unknown id invokes no observer; the registry stays
\* as it was in both cases.
C6_ChangedForwardsFetchedState ==
    /\ (ChangedKnown /\ _state_changed_cb # None /\ op.reply.exc = NoException) =>
          /\ Len(calls) = 1
          /\ calls[1].slot = "state_changed"
          /\ calls[1].cb = _state_changed_cb
          /\ calls[1].dev.udi = op.id
          /\ calls[1].dev \in Entries(pre)
          /\ calls[1].state = ExpectedState(op.reply.value)
    /\ ChangedUnknown => calls = <<>>
    /\ op.kind = "changed" => _switches = pre

\* URfkill reports a change carrying one state while the backend, asked
\* again, replies another; the observer gets the fetched one.
C6_Witness ==
    /\ ChangedKnown
    /\ k = "urfkill"
    /\ _state_changed_cb # None
    /\ op.reply.exc = NoException
    /\ Len(calls) = 1
    /\ calls[1].state # op.state
    /\ op.reply.value # op.state

\* A change of a device that HAL has removed arrives at a registry that
\* still holds another device.
C6_UnknownReached ==
    /\ ChangedUnknown
    /\ k = "hal"
    /\ _state_changed_cb # None
    /\ pre # <<>>

\* The name an added notification carries: URfkill's signal argument, HAL's
\* killswitch.name or else info.product.
AddedName ==
    IF k = "hal" THEN hal_name(op.reply.value.ksname, op.reply.value.product)
    ELSE op.name

\* The remote calls made while handling the added notification succeeded.
AddedCallsOk ==
    IF k = "hal" THEN op.reply.exc = NoException ELSE op.exc = NoException

\* What C7 promises of an added notification: one new device with the
\* notification's id and name at the end of the registry, and the
\* registered added-observer invoked once with it, the device being in the
\* registry by then.
AddedInserted ==
    /\ Len(_switches) = Len(pre) + 1
    /\ SubSeq(_switches, 1, Len(pre)) = pre
    /\ _switches[Len(_switches)].udi = op.id
    /\ _switches[Len(_switches)].name = AddedName
    /\ Len(calls) = 1
    /\ calls[1].slot = "added"
    /\ calls[1].cb = _killswitch_added_cb
    /\ calls[1].dev = _switches[Len(_switches)]
    /\ calls[1].reg = _switches
    /\ calls[1].dev \in Entries(calls[1].reg)

\* C7 as stated: with either backend, an added notification for an id not
\* in the registry that carries a usable name inserts the device and
\* invokes the registered added-observer once.
C7_AddedInserts_AsStated ==
    (AddedNew /\ AddedCallsOk /\ Usable(AddedName) /\ _killswitch_added_cb # None)
        => AddedInserted

\* C7 amended: the same, in Variant A only for a device that advertises the
\* killswitch capability; HAL's DeviceAdded for any other device is ignored.
C7_AddedInserts ==
    (/\ AddedNew
     /\ AddedCallsOk
     /\ Usable(AddedName)
     /\ _killswitch_added_cb # None
     /\ (k = "hal" => op.reply.value.cap))
        => AddedInserted

\* HAL announces a new killswitch that has only info.product as name, to a
\* registry that holds another device, with an added-observer registered.
C7_Witness ==
    /\ AddedNew
    /\ k = "hal"
    /\ AddedCallsOk
    /\ op.reply.value.cap
    /\ op.reply.value.ksname = False
    /\ Usable(AddedName)
    /\ _killswitch_added_cb # None
    /\ pre # <<>>
    /\ AddedInserted

\* C8: every device in the registry has a usable name, whether it came in
\* by discovery or by an added notification, with either backend.
C8_EveryEntryNamed ==
    \A i \in 1..Len(_switches) : Usable(_switches[i].name)

\* C9: enable_all() (disable_all()) calls set_state(1) (set_state(0)) once
\* on every device of the registry, in registry order, also when a call on
\* one of them fails.
C9_SetAllReachesEveryDevice ==
    op.kind \in {"enable_all", "disable_all"} =>
        /\ Len(setcalls) = Len(_switches)
        /\ \A i \in 1..Len(setcalls) :
              /\ setcalls[i].udi = _switches[i].udi
              /\ setcalls[i].state = IF op.kind = "enable_all" THEN 1 ELSE 0

\* C10: the manager is built on URfkill whenever URfkill's name has an
\* owner (at the probe's last look), also when HAL's has one; it is built
\* on HAL only when URfkill's has none and HAL's has one.
C10_UrfkillPreferred ==
    op.kind = "construct" =>
        /\ op.urfkill_owned => k = "urfkill"
        /\ k = "hal" => (~op.urfkill_owned /\ op.hal_owned)

\* Both names have an owner and the manager is built on URfkill.
C10_Witness ==
    /\ op.kind = "construct"
    /\ op.urfkill_owned
    /\ op.hal_owned
    /\ k = "urfkill"

\* Only HAL's name has an owner and the manager is built on HAL.
C10_HalReached ==
    /\ op.kind = "construct"
    /\ ~op.urfkill_owned
    /\ op.hal_owned
    /\ k = "hal"

\* C11: when neither URfkill's nor HAL's name has an owner, also after the
\* activation attempt, the constructor ends with an error for its caller
\* and no registry exists.
C11_NoBackendRaises ==
    (op.kind = "construct" /\ ~op.urfkill_owned /\ ~op.hal_owned) =>
        (raised # NoException /\ k = "unset")

\* The observer slot an invocation of the given kind reads.
Slot(kind) ==
    CASE kind = "state_changed" -> _state_changed_cb
      [] kind = "added" -> _killswitch_added_cb
      [] kind = "removed" -> _killswitch_removed_cb

Setters ==
    {"set_state_changed_cb", "set_killswitch_added_cb", "set_killswitch_removed_cb"}

\* One step of C17: a registration stores its observer in its own slot and
\* leaves the other two; nothing else writes a slot; a notification invokes
\* at most one observer, the one its slot holds (the last one registered).
C17_Step ==
    /\ op'.kind = "set_state_changed_cb" =>
          /\ _state_changed_cb' = op'.cb
          /\ UNCHANGED <<_killswitch_added_cb, _killswitch_removed_cb>>
    /\ op'.kind = "set_killswitch_added_cb" =>
          /\ _killswitch_added_cb' = op'.cb
          /\ UNCHANGED <<_state_changed_cb, _killswitch_removed_cb>>
    /\ op'.kind = "set_killswitch_removed_cb" =>
          /\ _killswitch_removed_cb' = op'.cb
          /\ UNCHANGED <<_state_changed_cb, _killswitch_added_cb>>
    /\ op'.kind \notin Setters =>
          /\ UNCHANGED <<_state_changed_cb, _killswitch_added_cb, _killswitch_removed_cb>>
          /\ Len(calls') <= 1
          /\ \A i \in 1..Len(calls') :
                /\ calls'[i].cb = Slot(calls'[i].slot)
                /\ calls'[i].cb # None
                /\ calls'[i].slot =
                      CASE op'.kind = "changed" -> "state_changed"
                        [] op'.kind = "added" -> "added"
                        [] op'.kind = "removed" -> "removed"
                        [] OTHER -> "none"

\* C17: each of the three observer slots holds one observer and the last
\* registration wins, with either backend.
C17_LastRegistrationWins == [][C17_Step]_vars

\* cb2 is registered in the removed slot, which held cb1, while the other
\* two slots hold cb1.
C17_Witness ==
    /\ op.kind = "set_killswitch_removed_cb"
    /\ op.old = "cb1"
    /\ op.cb = "cb2"
    /\ _killswitch_removed_cb = "cb2"
    /\ _state_changed_cb = "cb1"
    /\ _killswitch_added_cb = "cb1"
    /\ _switches # <<>>

\* After cb1 was replaced, a removal invokes cb2.
C17_Cb2Invoked ==
    /\ op.kind = "removed"
    /\ Len(calls) = 1
    /\ calls[1].cb = "cb2"
    /\ _state_changed_cb = "cb1"

\* A remote call of the last changed or added notification failed.
RemoteCallFailed ==
    \/ op.kind = "changed" /\ op.reply.exc = DBusException
    \/ op.kind = "added" /\ k = "hal" /\ op.reply.exc = DBusException
    \/ op.kind = "added" /\ k = "urfkill" /\ op.exc = DBusException

\* C18: when a remote call made while handling a changed or added
\* notification fails, the registry is left as it was before the
\* notification and no observer is invoked for it.
C18_FailedCallLeavesRegistry ==
    RemoteCallFailed => (_switches = pre /\ calls = <<>>)

\* URfkill announces a new device and the adapter's get_object fails, with
\* an added-observer registered: the handler ends with the exception.
C18_Witness ==
    /\ AddedNew
    /\ k = "urfkill"
    /\ op.exc = DBusException
    /\ _killswitch_added_cb # None
    /\ raised = DBusException

\* A change of a registered device whose state cannot be fetched.
C18_ChangedReached ==
    /\ ChangedKnown
    /\ op.reply.exc = DBusException
    /\ _state_changed_cb # None
    /\ raised = DBusException

\* The registry the last notification leaves when every slot holds cb1.
RegistryWithObservers ==
    CASE op.kind = "removed" /\ k = "urfkill" ->
            killswitch_removed_cb(pre, "cb1", op.id).switches
      [] op.kind = "removed" /\ k = "hal" ->
            device_removed_cb(pre, "cb1", op.id).switches
      [] op.kind = "added" /\ k = "urfkill" ->
            killswitch_added_cb(pre, "cb1", op.id, op.type, op.name, op.exc).switches
      [] op.kind = "added" /\ k = "hal" ->
            device_added_cb(pre, "cb1", op.id, op.reply).switches
      [] op.kind = "changed" /\ k = "urfkill" ->
            killswitch_modified_cb(pre, "cb1", op.id, op.state, op.reply).switches
      [] op.kind = "changed" /\ k = "hal" ->
            property_modified_cb(pre, "cb1", op.id, op.reply).switches
      [] OTHER -> _switches

\* C19: the registry after a notification is the same whether or not
\* observers are registered: it is what the handler leaves when run on the
\* same registry and notification with observers in the slots.
C19_RegistryIndependentOfObservers ==
    op.kind \in {"added", "removed", "changed"} => _switches = RegistryWithObservers

\* C20: with HAL, every device in the registry has a PropertyModified
\* receiver, also one inserted by DeviceAdded.
C20_EveryDeviceSubscribed ==
    k = "hal" => Udis(_switches) \subseteq subscribed

\* The labels of type codes 0..7 as the table of __get_name_for_type has
\* them, and as the type-code mapping is stated (code 0 as "all").
TableLabels ==
    <<"type all", "wlan", "bluetooth", "uwb", "wimax", "wwan", "gps", "fm">>

StatedLabels ==
    <<"all", "wlan", "bluetooth", "uwb", "wimax", "wwan", "gps", "fm">>

\* Every URfkill device carries the label that labels gives its type code,
\* and "unknown type" for a code outside 0..7: the devices of discovery,
\* and the device an added notification inserts.
CarriesLabels(labels) ==
    LET label(code) == IF code \in 0..7 THEN labels[code + 1] ELSE "unknown type"
    IN /\ op.kind = "construct" =>
            /\ Len(_switches) = Len(op.getall)
            /\ \A i \in 1..Len(_switches) :
                  _switches[i].type = label(op.getall[i].type)
       /\ (op.kind = "added" /\ op.id \notin Udis(pre)) =>
            /\ Len(_switches) = Len(pre) + 1
            /\ _switches[Len(_switches)].type = label(op.type)
            /\ \A i \in 1..Len(calls) : calls[i].dev.type = label(op.type)

\* C12 as stated: codes 0..7 are labelled all, wlan, bluetooth, uwb, wimax,
\* wwan, gps, fm, any other code "unknown type", and every device of a
\* URfkill registry carries the label of its code.
C12_TypeLabels_AsStated == CarriesLabels(StatedLabels)

\* C12: codes 0..7 are labelled "type all", wlan, bluetooth, uwb, wimax,
\* wwan, gps, fm, any other code "unknown type", and every device of a
\* URfkill registry carries the label of its code.
C12_TypeLabels == CarriesLabels(TableLabels)

\* A device of type code 0 is announced and inserted, and the observer gets
\* it with the label "type all".
C12_Witness ==
    /\ op.kind = "added"
    /\ op.type = 0
    /\ op.id \notin Udis(pre)
    /\ Len(calls) = 1
    /\ calls[1].dev.type = "type all"

\* Discovery lists a device of type 7 and one of a code above the table.
C12_DiscoveryReached ==
    /\ op.kind = "construct"
    /\ \E i \in 1..Len(op.getall) : op.getall[i].type = 7
    /\ \E i \in 1..Len(op.getall) : op.getall[i].type = MaxTypeCode
    /\ \E i \in 1..Len(_switches) : _switches[i].type = "fm"
    /\ \E i \in 1..Len(_switches) : _switches[i].type = "unknown type"

\* A device of a negative type code is announced.
C12_NegativeReached ==
    /\ op.kind = "added"
    /\ op.type = -1
    /\ op.id \notin Udis(pre)
    /\ _switches[Len(_switches)].type = "unknown type"

\* C13: get_state of a URfkill device gives 1 when neither block flag is
\* set, 2 whenever the hard flag is set, 0 when only the soft flag is set.
C13_TriState ==
    (op.kind = "get_state" /\ device.variant = "urfkill" /\ raised = NoException) =>
        op.result = IF device.hard THEN 2 ELSE IF device.soft THEN 0 ELSE 1

C14_BlockReached ==
    /\ op.kind = "set_state"
    /\ device.variant = "urfkill"
    /\ op.state = 0
    /\ ~op.before.soft
    /\ device.soft
    /\ Len(buscalls) = 1
    /\ buscalls[1].method = "BlockIdx"

\* C15: set_state with a value outside {0, 1}, on an adapter of either
\* variant, issues no backend call, raises nothing and leaves the backend's
\* state of the device as it was.
C15_InvalidStateIgnored ==
    (op.kind = "set_state" /\ op.state \notin {0, 1}) =>
        /\ buscalls = <<>>
        /\ raised = NoException
        /\ device = op.before

\* C16: get_state right after set_state(1) gives 1 on a HAL device; on a
\* URfkill device it gives 1 unless the hard flag is set, and then 2.
C16_SetThenGet ==
    (op.kind = "get_state" /\ op.after_set_1 /\ raised = NoException) =>
        op.result = IF device.variant = "urfkill" /\ device.hard THEN 2 ELSE 1

====
